---- MODULE Spec2Model ----
(***************************************************************************)
(* Model of the Custom Bullets plugin (src/main.ts).                       *)
(*                                                                         *)
(* A line of text is a sequence of characters.  The characters that the    *)
(* code distinguishes are the space, the tab, the other characters of the  *)
(* regular expression class \s (represented by the form feed), the line    *)
(* terminators that "." does not match (represented by the line feed), the *)
(* three list markers, and everything else.  The five default glyphs are   *)
(* written by their code points.                                           *)
(***************************************************************************)
EXTENDS Integers, Sequences, FiniteSets, TLC

VARIABLES
    phase,       \* "constructed" before onload has run, "loaded" after
    data,        \* the persisted settings (what loadData returns)
    settings,    \* plugin.settings, the in-memory record
    statusText,  \* the text of the status bar item
    pending,     \* the saveData calls in flight, in the order issued
    mutations,   \* the number of settings mutations so far
    lastInput,   \* the handler that ran last and the value it was given
    input,       \* the line first handed to processLine
    lineText,    \* the argument of the last processLine call
    result,      \* what the last processLine call returned
    level,       \* the local `level` of the last processLine call
    calls        \* the number of processLine calls of the rewrite run

vars == <<phase, data, settings, statusText, pending, mutations, lastInput,
          input, lineText, result, level, calls>>

------------------------------------------------------------------------------
(* Bounds *)

MaxLen == 4        \* every line of at most this many characters is an input
MaxIndent == 5     \* the longest indentation put before a list item
MaxPending == 2    \* the most saveData calls in flight
MaxMutations == 3  \* the most settings mutations in one behaviour

------------------------------------------------------------------------------
(* Characters *)

SP == " "
TAB == "TAB"
FF == "FF"
LF == "LF"

\* the class \s of the regular expressions, on the alphabet
WhiteSpaceClass == {SP, TAB, FF, LF}
\* "." matches everything but the line terminators
LineTerminatorClass == {LF}
\* (-|\*|\+)
BulletClass == {"-", "*", "+"}

Alphabet == {SP, TAB, FF, LF, "-", "*", "+", "a"}

LevelKeys == {"level1", "level2", "level3", "level4", "level5"}

DEFAULT_SETTINGS ==
    [level1 |-> <<"U+2022">>,
     level2 |-> <<"U+25E6">>,
     level3 |-> <<"U+25AA">>,
     level4 |-> <<"U+25AB">>,
     level5 |-> <<"U+2043">>,
     enabled |-> TRUE]

------------------------------------------------------------------------------
(* processLine *)

\* the end of the longest run of characters of class C that starts at s[i]
\* (i - 1 when the run is empty): a greedy quantifier
RunEnd(s, i, C) ==
    CHOOSE j \in (i - 1)..Len(s) :
        /\ \A k \in i..j : s[k] \in C
        /\ j = Len(s) \/ s[j + 1] \notin C

\* (-|\*|\+)
IsBullet(c) == c \in BulletClass

\* the characters of text that . matches
DotClass(text) == {text[k] : k \in DOMAIN text} \ LineTerminatorClass

\* a failed match (null)
NoMatch ==
    [matched |-> FALSE, indent |-> <<>>, bullet |-> <<>>, space |-> <<>>,
     content |-> <<>>]

\* the pattern (\s*)(-|\*|\+)(\s+)(.*) tried at position p of text: the
\* classes \s and (-|\*|\+) are disjoint, so no shorter run of the greedy
\* quantifiers can match where the longest does not, and (.*) matches any
\* rest, up to the first line terminator
matchAt(text, p) ==
    LET iEnd == RunEnd(text, p, WhiteSpaceClass)
        b == iEnd + 1
    IN  IF b > Len(text) \/ ~IsBullet(text[b])
        THEN NoMatch
        ELSE LET sEnd == RunEnd(text, b + 1, WhiteSpaceClass)
             IN  IF sEnd < b + 1
                 THEN NoMatch
                 ELSE [matched |-> TRUE,
                       indent |-> SubSeq(text, p, iEnd),
                       bullet |-> <<text[b]>>,
                       space |-> SubSeq(text, b + 1, sEnd),
                       content |-> SubSeq(text, sEnd + 1,
                                          RunEnd(text, sEnd + 1, DotClass(text)))]

\* listMatch with the separator optional, (\s*) for (\s+)
listMatchOptionalSpace(text) ==
    LET iEnd == RunEnd(text, 1, WhiteSpaceClass)
        b == iEnd + 1
    IN  IF b > Len(text) \/ ~IsBullet(text[b])
        THEN NoMatch
        ELSE LET sEnd == RunEnd(text, b + 1, WhiteSpaceClass)
             IN  [matched |-> TRUE,
                  indent |-> SubSeq(text, 1, iEnd),
                  bullet |-> <<text[b]>>,
                  space |-> SubSeq(text, b + 1, sEnd),
                  content |-> SubSeq(text, sEnd + 1,
                                     RunEnd(text, sEnd + 1, DotClass(text)))]

\* listMatch without the anchor ^: the leftmost position where the pattern
\* matches
listMatchUnanchored(text) ==
    LET starts == {p \in 1..Len(text) : matchAt(text, p).matched}
    IN  IF starts = {}
        THEN NoMatch
        ELSE matchAt(text, CHOOSE p \in starts : \A q \in starts : p <= q)

\* lineText.match(/^(\s*)(-|\*|\+)(\s+)(.*)/): ^ anchors the pattern at the
\* start of the text
listMatch(text) == matchAt(text, 1)

IsTab(c) == c = TAB
NotTab(c) == c # TAB

\* (indent.match(/\t/g) || []).length
tabCount(indent) == Len(SelectSeq(indent, IsTab))

\* indent.replace(/\t/g, '').length
spaceCount(indent) == Len(SelectSeq(indent, NotTab))

\* spaceLevel with four spaces to a level
spaceLevelBy4(indent) == spaceCount(indent) \div 4

\* Math.floor(spaceCount / 2)
spaceLevel(indent) == spaceCount(indent) \div 2

\* the local `level`: 1, and 1 + tabCount + spaceLevel when indent is not empty
levelOf(indent) ==
    IF indent # <<>>
    THEN 1 + tabCount(indent) + spaceLevel(indent)
    ELSE 1

\* customBullet without its case 4
customBulletNoCase4(lvl, s) ==
    CASE lvl = 1 -> s.level1
      [] lvl = 2 -> s.level2
      [] lvl = 3 -> s.level3
      [] OTHER -> s.level5

\* the switch on level
customBullet(lvl, s) ==
    CASE lvl = 1 -> s.level1
      [] lvl = 2 -> s.level2
      [] lvl = 3 -> s.level3
      [] lvl = 4 -> s.level4
      [] OTHER -> s.level5

\* processLine without the test of settings.enabled
processLineUngated(line, text, s) ==
    LET m == listMatch(text)
    IN  IF ~m.matched
        THEN [ret |-> line, level |-> 0]
        ELSE LET lvl == levelOf(m.indent)
             IN  [ret |-> m.indent \o customBullet(lvl, s) \o m.space
                           \o m.content,
                  level |-> lvl]

\* processLine(line, lineText, ...): what it returns, and the value of its
\* local `level` (0 when it returns before computing one)
processLine(line, text, s) ==
    IF ~s.enabled
    THEN [ret |-> line, level |-> 0]
    ELSE LET m == listMatch(text)
         IN  IF ~m.matched
             THEN [ret |-> line, level |-> 0]
             ELSE LET lvl == levelOf(m.indent)
                  IN  [ret |-> m.indent \o customBullet(lvl, s) \o m.space
                                \o m.content,
                       level |-> lvl]

------------------------------------------------------------------------------
(* Settings: loading, saving, the status bar *)

\* loadData() of a plugin that has saved nothing: null
NoData == [k \in {} |-> <<>>]

\* this.settings before loadSettings has run
Undefined == [k \in {} |-> <<>>]

\* Object.assign({}, target, source)
ObjectAssign(target, source) ==
    [k \in DOMAIN target \cup DOMAIN source |->
        IF k \in DOMAIN source THEN source[k] ELSE target[k]]

\* loadSettings
loadSettings(d) == ObjectAssign(DEFAULT_SETTINGS, d)

\* 'Custom Bullets: ' + (this.settings.enabled ? 'ON' : 'OFF')
StatusOf(s) == IF s.enabled THEN "Custom Bullets: ON" ELSE "Custom Bullets: OFF"

\* FallbackGlyph with the literal of level 1 copied to every handler
FallbackGlyphCopied(key) == <<"U+2022">>

\* the literal each text handler falls back to
FallbackGlyph(key) ==
    CASE key = "level1" -> <<"U+2022">>
      [] key = "level2" -> <<"U+25E6">>
      [] key = "level3" -> <<"U+25AA">>
      [] key = "level4" -> <<"U+25AB">>
      [] key = "level5" -> <<"U+2043">>

\* OrFallback without the fallback: the value as delivered
OrFallbackNone(value, fallback) == value

\* value || fallback: the empty string is falsy
OrFallback(value, fallback) == IF value = <<>> THEN fallback ELSE value

\* saveSettings: saveData(this.settings) is handed the record as it is at the
\* call; the write completes later
saveSettings(s) == Append(pending, s)

------------------------------------------------------------------------------
(* The plugin: startup, the toggle command, the settings panel, saving *)

\* what the text inputs of the settings panel deliver
InputValues == {<<>>, <<"x">>}

\* the lines the editor hands to processLine while the plugin runs
SampleLines == {<<"-", SP, "a">>, <<SP, SP, "*", SP, "a">>, <<"a">>}

\* what loadData can return at startup: nothing, or a record the plugin saved
InitialData ==
    {NoData,
     [DEFAULT_SETTINGS EXCEPT !.enabled = FALSE],
     [DEFAULT_SETTINGS EXCEPT !.level1 = <<"x">>, !.level5 = <<"x">>]}

NoInput == [handler |-> "none", value |-> <<>>]

Init ==
    /\ phase = "constructed"
    /\ data \in InitialData
    /\ settings = Undefined
    /\ statusText = ""
    /\ pending = <<>>
    /\ mutations = 0
    /\ lastInput = NoInput
    /\ input = <<>>
    /\ lineText = <<>>
    /\ result = <<>>
    /\ level = 0
    /\ calls = 0

\* onload: loadSettings, then the status bar item; the command, the settings
\* tab and the editor extension are registered here, so no handler runs before
OnLoad ==
    /\ phase = "constructed"
    /\ phase' = "loaded"
    /\ settings' = loadSettings(data)
    /\ statusText' = StatusOf(settings')
    /\ UNCHANGED <<data, pending, mutations, lastInput, input, lineText,
                   result, level, calls>>

\* a handler that mutates the settings runs (within the bounds)
CanMutate ==
    /\ phase = "loaded"
    /\ mutations < MaxMutations
    /\ Len(pending) < MaxPending

\* the callback of the command toggle-custom-bullets; updateActiveMDView
\* rewrites the editor's text with itself and changes nothing of this state
ToggleCommand ==
    /\ CanMutate
    /\ settings' = [settings EXCEPT !.enabled = ~settings.enabled]
    /\ statusText' = StatusOf(settings')
    /\ pending' = saveSettings(settings')
    /\ mutations' = mutations + 1
    /\ lastInput' = [handler |-> "toggle-custom-bullets", value |-> <<>>]
    /\ UNCHANGED <<phase, data, input, lineText, result, level, calls>>

\* onChange of the toggle of the settings panel
PanelToggle(value) ==
    /\ CanMutate
    /\ settings' = [settings EXCEPT !.enabled = value]
    /\ pending' = saveSettings(settings')
    /\ mutations' = mutations + 1
    /\ lastInput' = [handler |-> "enabled", value |-> value]
    /\ UNCHANGED <<phase, data, statusText, input, lineText, result, level,
                   calls>>

\* onChange of the text input of one level
PanelText(key, value) ==
    /\ CanMutate
    /\ settings' = [settings EXCEPT ![key] = OrFallback(value, FallbackGlyph(key))]
    /\ pending' = saveSettings(settings')
    /\ mutations' = mutations + 1
    /\ lastInput' = [handler |-> key, value |-> value]
    /\ UNCHANGED <<phase, data, statusText, input, lineText, result, level,
                   calls>>

\* a saveData call completes: the record it was handed is what is persisted.
\* Nothing in the code orders the completions of the calls in flight.
SaveDone(i) ==
    /\ data' = pending[i]
    /\ pending' = SubSeq(pending, 1, i - 1) \o SubSeq(pending, i + 1, Len(pending))
    /\ UNCHANGED <<phase, settings, statusText, mutations, lastInput, input,
                   lineText, result, level, calls>>

\* some saveData call in flight completes
SaveCompletes == \E i \in 1..Len(pending) : SaveDone(i)

\* one call of processLine, the line object being the line's text
Call(l) ==
    LET r == processLine(l, l, settings)
    IN  /\ lineText' = l
        /\ result' = r.ret
        /\ level' = r.level

\* the editor has a line processed
ProcessLine ==
    /\ phase = "loaded"
    /\ \E l \in SampleLines : Call(l)
    /\ UNCHANGED <<phase, data, settings, statusText, pending, mutations,
                   lastInput, input, calls>>

Next ==
    \/ OnLoad
    \/ ToggleCommand
    \/ \E value \in BOOLEAN : PanelToggle(value)
    \/ \E key \in LevelKeys, value \in InputValues : PanelText(key, value)
    \/ SaveCompletes
    \/ ProcessLine

Spec == Init /\ [][Next]_vars

------------------------------------------------------------------------------
(* processLine as a function: every line and glyph table within the bounds, *)
(* rewritten once and then once more                                        *)

RECURSIVE Strings(_, _)
\* the strings over A of length at most n
Strings(A, n) ==
    IF n = 0
    THEN {<<>>}
    ELSE LET S == Strings(A, n - 1)
         IN  S \cup {Append(x, c) : x \in S, c \in A}

\* list items to put an indentation before
Items ==
    {<<b, sep>> \o c : b \in BulletClass, sep \in {SP, TAB}, c \in {<<>>, <<"a">>}}

Lines ==
    Strings(Alphabet, MaxLen)
        \cup {i \o item : i \in Strings({SP, TAB, FF}, MaxIndent), item \in Items}

\* glyph tables: the defaults, glyphs of several characters, and glyphs made
\* of markers and white space
GlyphTables ==
    {DEFAULT_SETTINGS,
     [level1 |-> <<"x">>, level2 |-> <<"x", "y">>, level3 |-> <<"a">>,
      level4 |-> <<"x", SP>>, level5 |-> <<"y">>, enabled |-> TRUE],
     [level1 |-> <<"-", SP>>, level2 |-> <<"*">>, level3 |-> <<SP>>,
      level4 |-> <<"+">>, level5 |-> <<TAB, "-">>, enabled |-> TRUE]}

InitRewrite ==
    /\ phase = "loaded"
    /\ \E t \in GlyphTables, e \in BOOLEAN : settings = [t EXCEPT !.enabled = e]
    /\ data = settings
    /\ statusText = StatusOf(settings)
    /\ pending = <<>>
    /\ mutations = 0
    /\ lastInput = NoInput
    /\ input \in Lines
    /\ lineText = <<>>
    /\ result = <<>>
    /\ level = 0
    /\ calls = 0

\* rewrite(l)
RewriteOnce ==
    /\ calls = 0
    /\ Call(input)
    /\ calls' = 1
    /\ UNCHANGED <<phase, data, settings, statusText, pending, mutations,
                   lastInput, input>>

\* rewrite(rewrite(l))
RewriteAgain ==
    /\ calls = 1
    /\ Call(result)
    /\ calls' = 2
    /\ UNCHANGED <<phase, data, settings, statusText, pending, mutations,
                   lastInput, input>>

NextRewrite == RewriteOnce \/ RewriteAgain

SpecRewrite == InitRewrite /\ [][NextRewrite]_vars

------------------------------------------------------------------------------
(* What the claims speak of, stated on the text itself *)

\* optional leading white space, one of - * +, at least one white space
IsListLine(l) ==
    \E i \in 1..(Len(l) - 1) :
        /\ \A j \in 1..(i - 1) : l[j] \in WhiteSpaceClass
        /\ l[i] \in BulletClass
        /\ l[i + 1] \in WhiteSpaceClass

\* the same with a prefix of spaces and tabs only
IsStrictListLine(l) ==
    \E i \in 1..(Len(l) - 1) :
        /\ \A j \in 1..(i - 1) : l[j] \in {SP, TAB}
        /\ l[i] \in BulletClass
        /\ l[i + 1] \in WhiteSpaceClass

\* a single line of text
IsSingleLine(l) == \A j \in 1..Len(l) : l[j] \notin LineTerminatorClass

FirstOf(S) == CHOOSE i \in S : \A j \in S : i <= j

\* the position of the marker, the first character that is no white space
MarkerAt(l) == FirstOf({i \in 1..Len(l) : l[i] \notin WhiteSpaceClass})

\* the text before the marker
PrefixOf(l) == SubSeq(l, 1, MarkerAt(l) - 1)

\* the position after the white space that follows the marker
AfterSeparator(l) ==
    FirstOf({i \in (MarkerAt(l) + 1)..(Len(l) + 1) :
                i = Len(l) + 1 \/ l[i] \notin WhiteSpaceClass})

\* the white space that follows the marker
SeparatorOf(l) == SubSeq(l, MarkerAt(l) + 1, AfterSeparator(l) - 1)

\* the rest of the line, as far as "." matches
ContentOf(l) ==
    LET stop == FirstOf({i \in AfterSeparator(l)..(Len(l) + 1) :
                            i = Len(l) + 1 \/ l[i] \in LineTerminatorClass})
    IN  SubSeq(l, AfterSeparator(l), stop - 1)

\* the number of positions of q that hold a character of S
Count(q, S) == Cardinality({j \in 1..Len(q) : q[j] \in S})

\* 1 + tabs + floor(remaining characters / 2)
ExpectedLevel(prefix) ==
    1 + Count(prefix, {TAB}) + ((Len(prefix) - Count(prefix, {TAB})) \div 2)

\* level1 for 1, ..., level4 for 4, level5 for every level >= 5
GlyphForLevel(n, s) ==
    IF n = 1 THEN s.level1
    ELSE IF n = 2 THEN s.level2
    ELSE IF n = 3 THEN s.level3
    ELSE IF n = 4 THEN s.level4
    ELSE s.level5

\* the examples of the level computation: prefix, level
LevelExamples ==
    {<<<<>>, 1>>, <<<<SP, SP>>, 2>>, <<<<SP, SP, SP>>, 2>>,
     <<<<SP, SP, SP, SP>>, 3>>, <<<<TAB>>, 2>>, <<<<TAB, TAB>>, 3>>,
     <<<<SP>>, 1>>}

Rewritten == calls >= 1 /\ settings.enabled

------------------------------------------------------------------------------
(* The claims *)

\* C1: with enabled false, processLine returns its input line unchanged, for
\* every line (list items too) and every glyph table.
C1_DisabledReturnsInput ==
    (calls >= 1 /\ ~settings.enabled) => result = lineText

\* C1 witness: a list item went through processLine with enabled false.
C1_Witness ==
    /\ calls >= 1
    /\ ~settings.enabled
    /\ IsListLine(lineText)
    /\ lineText = <<SP, SP, "-", SP, "a">>
    /\ result = lineText

\* C2: with enabled true, every line that is not white space, a marker and
\* at least one white space is returned unchanged: the empty string, "---", a
\* marker with no white space after it.
C2_UnmatchedReturnsInput ==
    (Rewritten /\ ~IsListLine(lineText)) => result = lineText

\* C2 witness: the horizontal rule "---" came back unchanged.
C2_Witness ==
    /\ Rewritten
    /\ lineText = <<"-", "-", "-">>
    /\ result = lineText

\* C3: for a matched line the output is the prefix, the glyph of the computed
\* level (level5 for every level >= 5), the separator and the content, each
\* but the glyph as it was in the line.
C3_OutputIsPrefixGlyphSeparatorContent ==
    (Rewritten /\ IsListLine(lineText)) =>
        /\ level >= 1
        /\ result = PrefixOf(lineText) \o GlyphForLevel(level, settings)
                      \o SeparatorOf(lineText) \o ContentOf(lineText)

\* C3 witness: an item of level 6 got the glyph of level 5 behind its five
\* tabs and before its tab separator.
C3_Witness ==
    /\ Rewritten
    /\ lineText = <<TAB, TAB, TAB, TAB, TAB, "+", TAB, "a">>
    /\ level = 6
    /\ result = <<TAB, TAB, TAB, TAB, TAB, "U+2043", TAB, "a">>

\* C4: the level of a matched line is 1 + the tabs of the prefix + half the
\* other characters of the prefix, rounded down, whatever their order.
C4_LevelIsOnePlusTabsPlusHalfSpaces ==
    (Rewritten /\ IsListLine(lineText)) =>
        /\ level = ExpectedLevel(PrefixOf(lineText))
        /\ \A e \in LevelExamples : PrefixOf(lineText) = e[1] => level = e[2]

\* C4 witness: two spaces with a tab between them and one space left over
\* make level 3.
C4_Witness ==
    /\ Rewritten
    /\ IsListLine(lineText)
    /\ PrefixOf(lineText) = <<SP, TAB, SP, SP>>
    /\ level = 3

\* C5: a line is changed only if the text before its marker is made of spaces
\* and tabs alone; any other character there, other white space too, leaves
\* the line unchanged.
C5_ChangedOnlyBehindSpacesAndTabs ==
    (Rewritten /\ IsSingleLine(lineText) /\ result # lineText) =>
        IsStrictListLine(lineText)

\* C6 as stated: for every glyph table of non-empty glyphs, rewriting twice
\* gives what rewriting once gives.
C6_RewriteTwiceIsRewriteOnce ==
    (calls = 2 /\ settings.enabled /\ IsSingleLine(input)
        /\ \A k \in LevelKeys : settings[k] # <<>>)
    => result = lineText

\* every glyph is non-empty and starts with a character that is neither white
\* space nor a marker
GlyphsStartPlain(s) ==
    \A k \in LevelKeys :
        /\ s[k] # <<>>
        /\ s[k][1] \notin WhiteSpaceClass \cup BulletClass

\* C6 amended: when every glyph starts with a character that is neither white
\* space nor a marker, the rewritten line is no list line and rewriting it
\* again returns it unchanged.
C6_RewriteTwiceIsRewriteOncePlainGlyphs ==
    (calls = 2 /\ settings.enabled /\ GlyphsStartPlain(settings)) =>
        /\ ~IsListLine(lineText)
        /\ result = lineText

\* C6 witness: a list item whose content is a list item was rewritten, and
\* the second rewrite left it alone.
C6_Witness ==
    /\ calls = 2
    /\ settings.enabled
    /\ GlyphsStartPlain(settings)
    /\ input = <<"-", SP, "-", SP>>
    /\ lineText # input
    /\ result = lineText

\* C7: a text input that delivers the empty value stores the default glyph of
\* its level, a non-empty value is stored as given; the other fields stay as
\* they were and the record stored is the one handed to save.
C7_EmptyValueStoresDefault ==
    [][(mutations' # mutations /\ lastInput'.handler \in LevelKeys) =>
        /\ settings'[lastInput'.handler] =
              (IF lastInput'.value = <<>>
               THEN DEFAULT_SETTINGS[lastInput'.handler]
               ELSE lastInput'.value)
        /\ settings'[lastInput'.handler] # <<>>
        /\ DOMAIN settings' = DOMAIN settings
        /\ \A f \in DOMAIN settings \ {lastInput'.handler} :
              settings'[f] = settings[f]
        /\ pending' = Append(pending, settings')]_vars

\* C7 witness: level 5 held a glyph of the user's, its input delivered the
\* empty value, and the default of level 5 was stored and handed to save.
C7_Witness ==
    /\ phase = "loaded"
    /\ lastInput.handler = "level5"
    /\ lastInput.value = <<>>
    /\ DOMAIN data # {}
    /\ data.level5 = <<"x">>
    /\ settings.level5 = <<"U+2043">>
    /\ pending # <<>>
    /\ pending[Len(pending)] = settings

\* C8: after startup the status bar reads ON exactly when enabled is true and
\* OFF exactly when it is false.
C8_StatusShowsEnabled ==
    phase = "loaded" =>
        statusText = (IF settings.enabled THEN "Custom Bullets: ON"
                      ELSE "Custom Bullets: OFF")

\* C9: once the settings are loaded, each of level1..level5 is a non-empty
\* string, whatever was loaded and whatever the panel delivered.
C9_GlyphsNeverEmpty ==
    phase = "loaded" =>
        \A k \in LevelKeys : k \in DOMAIN settings /\ settings[k] # <<>>

\* C9 witness: nothing was persisted, and the inputs of two levels delivered
\* the empty value one after the other.
C9_Witness ==
    /\ phase = "loaded"
    /\ DOMAIN data = {}
    /\ mutations >= 2
    /\ lastInput.handler = "level2"
    /\ lastInput.value = <<>>
    /\ \A k \in LevelKeys : settings[k] # <<>>

\* C10: whenever no save is in flight, what is persisted is the in-memory
\* record (a load would give back the settings in memory).
C10_PersistedIsInMemoryWhenNoSavePending ==
    (phase = "loaded" /\ pending = <<>>) => loadSettings(data) = settings

====
